---- MODULE Spec2Model ----
(***************************************************************************)
(* A model of the TextMate grammar interpreter:                            *)
(*   GrammarParser  (sphinx_matlab/grammar/parser.py): construction,       *)
(*                  search, parse and match_patterns;                      *)
(*   LanguageParser (src/textmate_grammar/language.py): parse_file.        *)
(* Text is a sequence of one-character strings, positions are 0-based      *)
(* offsets as in io.StringIO.                                              *)
(***************************************************************************)
EXTENDS Integers, Sequences, FiniteSets, TLC

VARIABLES
    mode,       \* which entry point this behaviour exercises
    pc,         \* position of the running call
    stream,     \* the StringIO buffer (its text)
    tell,       \* the StringIO position, stream.tell()
    gid,        \* which grammar of the catalogue (which language, for parse_file)
                \* was given to the constructor
    arena,      \* the constructed GrammarParser objects, by object id
    store,      \* GrammarParser.PARSERSTORE: key -> object id
    error,      \* the exception raised, "none" when none
    call,       \* arguments of the running call
    loc,        \* locals of the running call
    out,        \* what the call returned / has appended so far
    files,      \* the file system: path -> [text, mtime]
    cache,      \* the TextmateCache: path -> <<>> or <<[mtime, element]>>
    log         \* the calls the running call made to its collaborators

vars == <<mode, pc, stream, tell, gid, arena, store, error, call, loc, out,
          files, cache, log>>

(***************************************************************************)
(* Bounds of the model.                                                    *)
(***************************************************************************)
\* longest StringIO buffer of the dispatch, parse and file behaviours
MaxLen == 3
\* nested parse calls before Python's RecursionError is modelled
MaxDepth == 5
\* iterations of one match_patterns loop that are followed
MaxIter == 5
\* longest run of blanks in front of the text a search behaviour reads
MaxPad == 101
\* parse_file calls and file writes of one file behaviour
MaxCalls == 2

(***************************************************************************)
(* Program constants.                                                      *)
(***************************************************************************)
regex_lookbehind_max == 100
regex_lookbehind_step == 5

NL == "\n"
SP == " "
Chars == {"a", "b", NL}

Min(a, b) == IF a < b THEN a ELSE b

RECURSIVE SeqsUpTo(_)
SeqsUpTo(n) ==
    IF n = 0 THEN {<<>>}
    ELSE LET S == SeqsUpTo(n - 1)
         IN  S \cup {Append(s, c) : s \in {t \in S : Len(t) = n - 1}, c \in Chars}

(***************************************************************************)
(* io.StringIO                                                             *)
(***************************************************************************)
\* stream.seek(pos); stream.read(n): the text read (n < 0 reads to the end)
ReadN(s, pos, n) ==
    IF pos >= Len(s) THEN <<>>
    ELSE IF n < 0 THEN SubSeq(s, pos + 1, Len(s))
    ELSE SubSeq(s, pos + 1, Min(pos + n, Len(s)))

\* stream.tell() after stream.seek(pos); stream.read(n)
TellAfterRead(s, pos, n) == pos + Len(ReadN(s, pos, n))

\* stream.seek(pos); stream.readline(): up to and including the next newline
ReadLine(s, pos) ==
    IF pos >= Len(s) THEN <<>>
    ELSE LET nls == {i \in (pos + 1)..Len(s) : s[i] = NL}
         IN  IF nls = {} THEN SubSeq(s, pos + 1, Len(s))
             ELSE SubSeq(s, pos + 1, CHOOSE i \in nls : \A j \in nls : i <= j)

\* GrammarParser.stream_end_pos
stream_end_pos(s) == Len(s)

\* GrammarParser.stream_read_pos: the content; the stream is left at `end`
stream_read_pos(s, start, end) == ReadN(s, start, end - start)

\* [line + "\n" for line in text.split("\n")]
RECURSIVE SplitLines(_)
SplitLines(text) ==
    LET nls == {i \in 1..Len(text) : text[i] = NL}
    IN  IF nls = {} THEN <<Append(text, NL)>>
        ELSE LET i == CHOOSE k \in nls : \A j \in nls : k <= j
             IN  <<SubSeq(text, 1, i)>> \o SplitLines(SubSeq(text, i + 1, Len(text)))

(***************************************************************************)
(* The regular expressions (onigurumacffi).  A pattern is                  *)
(*     [ (?<=lb) ] lit        with an optional capture group around        *)
(* lit[grp[1]+1 .. grp[2]], written (?<n>...) when `named`.                *)
(***************************************************************************)
Regex(lb, lit, grp, named) == [lb |-> lb, lit |-> lit, grp |-> grp, named |-> named]

\* regex._pattern, the text the pattern was compiled from
PatternText(re) ==
    LET open == IF re.named THEN <<"(", "?", "<", "n", ">">> ELSE <<"(">>
        body == IF re.grp = <<>> THEN re.lit
                ELSE SubSeq(re.lit, 1, re.grp[1]) \o open
                     \o SubSeq(re.lit, re.grp[1] + 1, re.grp[2]) \o <<")">>
                     \o SubSeq(re.lit, re.grp[2] + 1, Len(re.lit))
    IN  (IF re.lb = <<>> THEN <<>> ELSE <<"(", "?", "<", "=">> \o re.lb \o <<")">>) \o body

\* needle in text  (Python's substring test)
Contains(text, needle) ==
    \E i \in 0..(Len(text) - Len(needle)) :
        \A k \in 1..Len(needle) : text[i + k] = needle[k]

\* the pattern matches `line` with the match starting at 0-based offset i
MatchesAt(re, line, i) ==
    /\ i + Len(re.lit) <= Len(line)
    /\ \A k \in 1..Len(re.lit) : line[i + k] = re.lit[k]
    /\ \/ re.lb = <<>>
       \/ /\ i >= Len(re.lb)
          /\ \A k \in 1..Len(re.lb) : line[i - Len(re.lb) + k] = re.lb[k]

\* regex.search(line): <<>> for None, else <<match>> with the leftmost match;
\* a match records start(), end() and span(1)
RegexSearch(re, line) ==
    LET hits == {i \in 0..Len(line) : MatchesAt(re, line, i)}
    IN  IF hits = {} THEN <<>>
        ELSE LET i == CHOOSE k \in hits : \A j \in hits : k <= j
             IN  <<[start |-> i, end |-> i + Len(re.lit),
                    g1 |-> IF re.grp = <<>> THEN <<>>
                           ELSE <<i + re.grp[1], i + re.grp[2]>>]>>

(***************************************************************************)
(* GrammarParser.search: the retry loop                                    *)
(***************************************************************************)
RECURSIVE SumLen(_, _)
\* len(lines[0]) + ... + len(lines[k-1])
SumLen(lines, k) == IF k = 0 THEN 0 ELSE Len(lines[k]) + SumLen(lines, k - 1)

\* performLookbehind = "(?<" in regex._pattern
performLookbehind(re) == Contains(PatternText(re), <<"(", "?", "<">>)

NoMatch == [start |-> 0, end |-> 0, g1 |-> <<>>]

\* One pass through the body of search's while loop, entered with the loop
\* condition true.  readSize = 0 stands for both None and 0 (`if readSize:`).
\* shift is the backward shift this pass reads with; lookbehind and can are
\* the loop variables after the pass.
SearchAttempt(re, s, initPos, lookbehind, can, readSize, onlyLeadingWhiteSpace) ==
    LET can1  == IF ~performLookbehind(re) THEN FALSE ELSE can
        clamp == (initPos - lookbehind) < 0
        lb    == IF clamp THEN initPos ELSE lookbehind
        can2  == IF clamp THEN FALSE ELSE can1
        miss  == [found |-> FALSE, shift |-> lb, readFrom |-> initPos - lb,
                  lookbehind |-> lb + regex_lookbehind_step, can |-> can2,
                  matching |-> NoMatch, matchingToStreamPos |-> 0]
    IN  IF readSize # 0
        THEN LET lines == SplitLines(ReadN(s, initPos - lb, readSize + lb))
                 hits  == {k \in 1..Len(lines) : RegexSearch(re, lines[k]) # <<>>}
             IN  IF hits = {} THEN miss
                 ELSE LET k == CHOOSE x \in hits : \A y \in hits : x <= y
                      IN  [found |-> TRUE, shift |-> lb, readFrom |-> initPos - lb,
                           lookbehind |-> lb, can |-> can2,
                           matching |-> RegexSearch(re, lines[k])[1],
                           matchingToStreamPos |-> SumLen(lines, k - 1) + initPos - lb]
        ELSE LET line == ReadLine(s, initPos - lb)
                 m    == RegexSearch(re, line)
             IN  IF \/ m = <<>>
                    \/ /\ onlyLeadingWhiteSpace
                       /\ \E i \in 1..m[1].start : line[i] # SP
                 THEN miss
                 ELSE [found |-> TRUE, shift |-> lb, readFrom |-> initPos - lb,
                       lookbehind |-> lb, can |-> can2,
                       matching |-> m[1],
                       matchingToStreamPos |-> initPos + lb]

\* while lookbehind <= self.regex_lookbehind_max and streamCanLookbehind
SearchLoopCond(lookbehind, can) == lookbehind <= regex_lookbehind_max /\ can

RECURSIVE SearchLoop(_, _, _, _, _, _, _)
\* the whole while loop: the pass that found a match, or found = FALSE
SearchLoop(re, s, initPos, lookbehind, can, readSize, onlyLeadingWhiteSpace) ==
    IF SearchLoopCond(lookbehind, can)
    THEN LET a == SearchAttempt(re, s, initPos, lookbehind, can, readSize,
                                onlyLeadingWhiteSpace)
         IN  IF a.found THEN a
             ELSE SearchLoop(re, s, initPos, a.lookbehind, a.can, readSize,
                             onlyLeadingWhiteSpace)
    ELSE [found |-> FALSE, shift |-> 0, readFrom |-> initPos,
          lookbehind |-> lookbehind, can |-> can,
          matching |-> NoMatch, matchingToStreamPos |-> 0]

(***************************************************************************)
(* Elements (elements.py is not part of the sources: only the fields the   *)
(* parser sets are kept).  begin / end are <<>> for None.                  *)
(***************************************************************************)
ParsedElement(token, content, captures) ==
    [kind |-> "Element", token |-> token, content |-> content,
     captures |-> captures, begin |-> <<>>, end |-> <<>>]

ParsedElementBlock(token, content, captures, begin, end) ==
    [kind |-> "Block", token |-> token, content |-> content,
     captures |-> captures, begin |-> begin, end |-> end]

\* the bare str the recursion guard of parse returns in place of an element
RawString(content) ==
    [kind |-> "str", token |-> "", content |-> content,
     captures |-> <<>>, begin |-> <<>>, end |-> <<>>]

(***************************************************************************)
(* References to parsers: what set_parser returns.  Either a GrammarParser *)
(* object (its id in the arena) or the str naming a repository entry.      *)
(***************************************************************************)
ObjRef(id)   == [isStr |-> FALSE, name |-> <<>>, id |-> id]
StrRef(name) == [isStr |-> TRUE, name |-> name, id |-> 0]

\* closePos = None
NoPos == -1

\* results of parse: (matched, elements, span), the stream position it leaves
\* and the exception it raised
PR(ok, elements, pos, tl, err) ==
    [ok |-> ok, elements |-> elements, pos |-> pos, tell |-> tl, err |-> err]

\* results of search: (string, elements, start); hit = FALSE for (None, [], None)
SR(hit, string, elements, start, tl, err) ==
    [hit |-> hit, string |-> string, elements |-> elements, start |-> start,
     tell |-> tl, err |-> err]

\* results of match_patterns: the captured list, the stream position and the
\* exception; spans are the spans of the winners, in the order appended
MR(captured, spans, tl, err) ==
    [captured |-> captured, spans |-> spans, tell |-> tl, err |-> err]

\* GrammarParser.get_parser(callId): <<id>>, or <<>> when it raises
\* IncludedParserNotFound
get_parser(st, callId) ==
    IF callId.isStr
    THEN IF callId.name \in DOMAIN st THEN <<st[callId.name]>> ELSE <<>>
    ELSE <<callId.id>>

\* `0 in parsers`, parsers[0]
HasGroup0(parsers) == \E i \in 1..Len(parsers) : parsers[i][1] = 0
Group0(parsers) == parsers[CHOOSE i \in 1..Len(parsers) : parsers[i][1] = 0][2]

RECURSIVE Parse(_, _, _, _, _)
RECURSIVE CaptureLoop(_, _, _, _, _, _, _)
RECURSIVE MatchLoop(_, _, _, _, _, _, _, _, _, _, _)
RECURSIVE CandLoop(_, _, _, _, _, _, _)

\* search, lines 330-336: the capture-group parser at index i returned r
CaptureParsed(cx, parsers, i, a, elements, d, r) ==
    IF r.err # "none"
    THEN [failed |-> FALSE, elements |-> elements, tell |-> r.tell, err |-> r.err]
    ELSE IF ~r.ok
    THEN [failed |-> TRUE, elements |-> <<>>, tell |-> r.tell, err |-> "none"]
    ELSE CaptureLoop(cx, parsers, i + 1, a, elements \o r.elements, r.tell, d)

\* search, lines 325-336: the loop over the capture-group parsers, from index i
CaptureLoop(cx, parsers, i, a, elements, tl, d) ==
    IF i > Len(parsers)
    THEN [failed |-> FALSE, elements |-> elements, tell |-> tl, err |-> "none"]
    ELSE IF parsers[i][1] # 1 \/ a.matching.g1 = <<>>
    THEN [failed |-> FALSE, elements |-> elements, tell |-> tl, err |-> "IndexError"]
    ELSE IF a.matching.g1[1] = a.matching.g1[2]
    THEN CaptureLoop(cx, parsers, i + 1, a, elements, tl, d)
    ELSE IF parsers[i][2].isStr
    THEN [failed |-> FALSE, elements |-> elements, tell |-> tl,
          err |-> "AttributeError"]
    ELSE CaptureParsed(cx, parsers, i, a, elements, d,
                       Parse(cx, parsers[i][2].id,
                             a.matching.g1[1] + a.matchingToStreamPos,
                             a.matching.g1[2] + a.matchingToStreamPos, d))

\* search, lines 333-344: the result once the capture loop returned c
SearchCaptured(initPos, matchedString, startPos, closePos, c) ==
    IF c.err # "none" THEN SR(FALSE, <<>>, <<>>, 0, c.tell, c.err)
    ELSE IF c.failed THEN SR(FALSE, <<>>, <<>>, 0, initPos, "none")
    ELSE IF c.elements = <<>>
    THEN SR(TRUE, matchedString, <<>>, startPos, c.tell, "none")
    ELSE SR(TRUE, matchedString, c.elements, startPos, closePos, "none")

\* GrammarParser.search, lines 314-344: after the loop was left by break with
\* the pass a
SearchFinish(cx, a, initPos, parsers, d) ==
    LET startPos == a.matchingToStreamPos + a.matching.start
        closePos == a.matchingToStreamPos + a.matching.end
        matchedString == ReadN(cx.s, startPos, closePos - startPos)
        afterRead == TellAfterRead(cx.s, startPos, closePos - startPos)
    IN  IF HasGroup0(parsers)
        THEN IF Group0(parsers).isStr
             THEN SR(FALSE, <<>>, <<>>, 0, afterRead, "AttributeError")
             ELSE SR(TRUE, matchedString,
                     <<ParsedElement(cx.arena[Group0(parsers).id].token,
                                     matchedString, <<>>)>>,
                     startPos, closePos, "none")
        ELSE IF parsers # <<>>
        THEN SearchCaptured(initPos, matchedString, startPos, closePos,
                            CaptureLoop(cx, parsers, 1, a, <<>>, afterRead, d))
        ELSE SR(TRUE, matchedString, <<>>, startPos, closePos, "none")

\* GrammarParser.search, lines 310-312: the loop ended without break
SearchMissed(initPos) == SR(FALSE, <<>>, <<>>, 0, initPos, "none")

\* search once its while loop ended with the pass a
SearchAfterLoop(cx, a, initPos, parsers, d) ==
    IF ~a.found THEN SearchMissed(initPos)
    ELSE SearchFinish(cx, a, initPos, parsers, d)

\* GrammarParser.search, entered with stream.tell() = initPos
Search(cx, re, initPos, parsers, readSize, onlyLeadingWhiteSpace, d) ==
    SearchAfterLoop(cx, SearchLoop(re, cx.s, initPos, 0, TRUE, readSize,
                                   onlyLeadingWhiteSpace),
                    initPos, parsers, d)

(***************************************************************************)
(* GrammarParser.match_patterns                                            *)
(***************************************************************************)
\* lines 240-245: the candidate (optPatternElements, optPatternPos) of the
\* parser at index i against the best so far
Consider(st, i, p, optPatternElements, optPatternPos, cached) ==
    LET take == \/ st.elems = <<>>
                \/ optPatternPos[1] < st.pos[1]
                \/ /\ optPatternPos[1] = st.pos[1]
                   /\ optPatternPos[2] > st.pos[2]
    IN  [st EXCEPT
           !.elems  = IF take THEN optPatternElements ELSE @,
           !.pos    = IF take THEN optPatternPos ELSE @,
           !.winner = IF take THEN i ELSE @,
           !.cands  = Append(@, [idx |-> i, rule |-> p, pos |-> optPatternPos,
                                 elements |-> optPatternElements,
                                 cached |-> cached])]

\* lines 229-245: parser.parse of the parser at index i returned r
CandParsed(cx, ps, i, cursor, closePos, st, d, r) ==
    IF r.err # "none"
    THEN [st EXCEPT !.err = r.err, !.tell = r.tell]
    ELSE IF r.ok
    THEN CandLoop(cx, ps, i + 1, cursor, closePos,
                  Consider([st EXCEPT !.lastPos[ps[i]] = r.pos,
                                      !.lastElems[ps[i]] = r.elements,
                                      !.tell = r.tell],
                           i, ps[i], r.elements, r.pos, FALSE), d)
    ELSE CandLoop(cx, ps, i + 1, cursor, closePos, [st EXCEPT !.tell = r.tell], d)

\* line 223: the memo of parser p is reused at this cursor
MemoHit(st, p, cursor) == st.lastPos[p] # <<>> /\ st.lastPos[p][1] >= cursor

\* lines 222-245: `for parser in parsers`, from index i on
CandLoop(cx, ps, i, cursor, closePos, st, d) ==
    IF i > Len(ps) \/ st.err # "none" THEN st
    ELSE IF MemoHit(st, ps[i], cursor)
    THEN CandLoop(cx, ps, i + 1, cursor, closePos,
                  Consider(st, i, ps[i], st.lastElems[ps[i]], st.lastPos[ps[i]],
                           TRUE), d)
    ELSE CandParsed(cx, ps, i, cursor, closePos, st, d,
                    Parse(cx, ps[i], cursor, closePos, d))

\* lines 221-245: one iteration of the while loop up to the choice of the
\* winner: patternElements, patternPos (elems, pos), the memo and the stream
\* position after it; winner and cands record which parser won and what each
\* successful candidate offered
DispatchIter(cx, ps, cursor, closePos, lastPos, lastElems, tl, d) ==
    CandLoop(cx, ps, 1, cursor, closePos,
             [elems |-> <<>>, pos |-> <<>>, lastPos |-> lastPos,
              lastElems |-> lastElems, tell |-> tl, err |-> "none",
              winner |-> 0, cands |-> <<>>], d)

\* lines 247-251: the end of an iteration that chose st
MatchLoopStep(cx, ps, closePos, captured, spans, n, d, st) ==
    IF st.err # "none" THEN MR(captured, spans, st.tell, st.err)
    ELSE IF st.elems # <<>>
    THEN MatchLoop(cx, ps, st.pos[2], closePos, st.lastPos, st.lastElems,
                   captured \o st.elems, Append(spans, st.pos), st.tell, n + 1, d)
    ELSE MR(captured, spans, st.tell, "none")

\* lines 220-253: the while loop, entered at its n-th iteration
MatchLoop(cx, ps, cursor, closePos, lastPos, lastElems, captured, spans, tl, n, d) ==
    IF ~(cursor < closePos) THEN MR(captured, spans, tl, "none")
    ELSE IF n >= MaxIter THEN MR(captured, spans, tl, "loop")
    ELSE MatchLoopStep(cx, ps, closePos, captured, spans, n, d,
                       DispatchIter(cx, ps, cursor, closePos, lastPos, lastElems,
                                    tl, d))

\* line 214: parsers = [self.get_parser(callId) for callId in self.patterns]
Resolvable(st, refs) == \A i \in 1..Len(refs) : get_parser(st, refs[i]) # <<>>
Resolve(st, refs) == [i \in 1..Len(refs) |-> get_parser(st, refs[i])[1]]

\* dict.fromkeys(parsers)
EmptyMemo(ps) == [p \in {ps[i] : i \in 1..Len(ps)} |-> <<>>]

\* lines 215-253, with the parsers resolved
MatchResolved(cx, ps, startPos, closePos, d) ==
    MatchLoop(cx, ps, startPos, closePos, EmptyMemo(ps), EmptyMemo(ps),
              <<>>, <<>>, startPos, 0, d)

match_patterns(cx, r, startPos, closePos, d) ==
    IF ~Resolvable(cx.store, cx.arena[r].patterns)
    THEN MR(<<>>, <<>>, startPos, "IncludedParserNotFound")
    ELSE MatchResolved(cx, Resolve(cx.store, cx.arena[r].patterns), startPos,
                       closePos, d)

(***************************************************************************)
(* GrammarParser.parse, by shape                                           *)
(***************************************************************************)
\* readSize=closePos - startPos + 1 if closePos is not None else None
WindowReadSize(startPos, closePos) ==
    IF closePos # NoPos THEN closePos - startPos + 1 ELSE 0

\* lines 104-107 and 207-209: search returned m
MatchResult(rule, m) ==
    IF m.err # "none" THEN PR(FALSE, <<>>, <<>>, m.tell, m.err)
    ELSE IF ~m.hit THEN PR(FALSE, <<>>, <<>>, m.tell, "none")
    ELSE PR(TRUE, <<ParsedElement(rule.token, m.string, m.elements)>>,
            <<m.start, m.tell>>, m.tell, "none")

\* lines 96-107
ParseMatch(cx, rule, startPos, closePos, d) ==
    MatchResult(rule, Search(cx, rule.match[1], startPos, rule.captures,
                             WindowReadSize(startPos, closePos), TRUE, d))

\* lines 156-175 and 207-209: the element of a block and the stream position
\* stream_read_pos leaves
BlockResult(cx, rule, b, e, parsedEnd, midStartPos, midClosePos, midCaptured) ==
    LET begin == IF b.elements # <<>> THEN <<b.elements[1]>> ELSE <<>>
        end   == IF e.elements # <<>> THEN <<e.elements[1]>> ELSE <<>>
    IN  IF rule.contentToken # ""
        THEN PR(TRUE,
                <<ParsedElementBlock(rule.token,
                                     stream_read_pos(cx.s, midStartPos, midClosePos),
                                     midCaptured, begin, end)>>,
                <<b.start, midClosePos>>, midClosePos, "none")
        ELSE PR(TRUE,
                <<ParsedElementBlock(IF rule.token # "" THEN rule.token
                                     ELSE rule.comment,
                                     stream_read_pos(cx.s, b.start, parsedEnd),
                                     midCaptured, begin, end)>>,
                <<b.start, parsedEnd>>, parsedEnd, "none")

\* lines 148-175: the body was dispatched (mp), the element is assembled
BlockBody(cx, rule, b, e, mp) ==
    IF mp.err # "none" THEN PR(FALSE, <<>>, <<>>, mp.tell, mp.err)
    ELSE BlockResult(cx, rule, b, e, e.tell, b.tell, e.start, mp.captured)

\* lines 132-175: the end search returned e; midStartPos = b.tell,
\* parsedEnd = e.tell, midClosePos = e.start
BlockEnd(cx, r, rule, startPos, closePos, d, b, e) ==
    IF e.err # "none" THEN PR(FALSE, <<>>, <<>>, e.tell, e.err)
    ELSE IF ~e.hit THEN PR(FALSE, <<>>, <<>>, e.tell, "none")
    ELSE IF startPos = b.tell /\ closePos = e.start
    THEN PR(TRUE, <<RawString(stream_read_pos(cx.s, b.tell, e.start))>>,
            <<b.tell, e.start>>, e.start, "none")
    ELSE BlockBody(cx, rule, b, e,
                   IF rule.patterns # <<>>
                   THEN match_patterns(cx, r, b.tell, e.start, d)
                   ELSE MR(<<>>, <<>>, e.tell, "none"))

\* lines 119-131: the begin search returned b
BlockBegin(cx, r, rule, startPos, closePos, d, b) ==
    IF b.err # "none" THEN PR(FALSE, <<>>, <<>>, b.tell, b.err)
    ELSE IF ~b.hit THEN PR(FALSE, <<>>, <<>>, b.tell, "none")
    ELSE BlockEnd(cx, r, rule, startPos, closePos, d, b,
                  Search(cx, rule.end[1], b.tell, rule.endCaptures,
                         IF closePos # NoPos THEN closePos - b.tell + 1 ELSE -1,
                         FALSE, d))

\* lines 109-175
ParseBlock(cx, r, rule, startPos, closePos, d) ==
    BlockBegin(cx, r, rule, startPos, closePos, d,
               Search(cx, rule.begin[1], startPos, rule.beginCaptures,
                      WindowReadSize(startPos, closePos), TRUE, d))

\* lines 181-195 and 207-209: match_patterns returned mp
PatternsResult(cx, rule, startPos, mp) ==
    IF mp.err # "none" THEN PR(FALSE, <<>>, <<>>, mp.tell, mp.err)
    ELSE IF mp.captured # <<>> /\ rule.token # ""
    THEN PR(TRUE,
            <<ParsedElement(rule.token, stream_read_pos(cx.s, startPos, mp.tell),
                            mp.captured)>>,
            <<startPos, mp.tell>>, mp.tell, "none")
    ELSE PR(TRUE, mp.captured, <<startPos, mp.tell>>, mp.tell, "none")

\* lines 177-195
ParsePatterns(cx, r, rule, startPos, closePos, d) ==
    PatternsResult(cx, rule, startPos,
                   match_patterns(cx, r, startPos,
                                  IF closePos # NoPos /\ closePos # 0 THEN closePos
                                  ELSE stream_end_pos(cx.s), d))

\* lines 197-209
ParseLeaf(cx, rule, startPos, closePos) ==
    LET content == IF closePos # NoPos THEN ReadN(cx.s, startPos, closePos - startPos)
                   ELSE ReadLine(cx.s, startPos)
        tl == startPos + Len(content)
    IN  PR(TRUE,
           <<ParsedElement(IF rule.token # "" THEN rule.token ELSE rule.comment,
                           content, <<>>)>>,
           <<startPos, tl>>, tl, "none")

\* the shape of a parser object: the branch parse takes (lines 96, 109, 177, 197)
Shape(rule) ==
    IF rule.match # <<>> THEN "match"
    ELSE IF rule.begin # <<>> /\ rule.end # <<>> THEN "block"
    ELSE IF rule.patterns # <<>> THEN "patterns"
    ELSE "leaf"

\* GrammarParser.parse of the parser object r; d is the number of nested parse
\* calls the interpreter still allows
Parse(cx, r, startPos, closePos, d) ==
    IF d = 0 THEN PR(FALSE, <<>>, <<>>, startPos, "RecursionError")
    ELSE IF Shape(cx.arena[r]) = "match"
    THEN ParseMatch(cx, cx.arena[r], startPos, closePos, d - 1)
    ELSE IF Shape(cx.arena[r]) = "block"
    THEN ParseBlock(cx, r, cx.arena[r], startPos, closePos, d - 1)
    ELSE IF Shape(cx.arena[r]) = "patterns"
    THEN ParsePatterns(cx, r, cx.arena[r], startPos, closePos, d - 1)
    ELSE ParseLeaf(cx, cx.arena[r], startPos, closePos)

(***************************************************************************)
(* Grammars.  A grammar dict is a table of nodes; a node refers to its     *)
(* sub-grammars (patterns, captures) by their index in the table.          *)
(* `entries` are the constructor calls GrammarParser(grammar, key=...)     *)
(* made for it, root last.                                                 *)
(***************************************************************************)
GNode ==
    [include |-> <<>>, name |-> "", contentName |-> "", comment |-> "",
     match |-> <<>>, begin |-> <<>>, end |-> <<>>,
     captures |-> <<>>, beginCaptures |-> <<>>, endCaptures |-> <<>>,
     patterns |-> <<>>]

MatchN(name, re, caps) ==
    [GNode EXCEPT !.name = name, !.match = <<re>>, !.captures = caps]
BlockN(name, contentName, b, e, bcaps, ecaps, pats) ==
    [GNode EXCEPT !.name = name, !.contentName = contentName, !.begin = <<b>>,
                  !.end = <<e>>, !.beginCaptures = bcaps, !.endCaptures = ecaps,
                  !.patterns = pats]
PatsN(name, pats) == [GNode EXCEPT !.name = name, !.patterns = pats]
IncN(include) == [GNode EXCEPT !.include = include]
LeafN(name) == [GNode EXCEPT !.name = name]

Self == <<"$", "s", "e", "l", "f">>

\* GrammarParser.set_parser, called by the object `self` on sub-grammar g
set_parser(nodes, self, g) ==
    IF nodes[g].include # <<>>
    THEN IF nodes[g].include = Self THEN ObjRef(self)
         ELSE StrRef(Tail(nodes[g].include))
    ELSE ObjRef(g)

\* GrammarParser.__init_captures
init_captures(nodes, self, caps) ==
    [i \in 1..Len(caps) |-> <<caps[i][1], set_parser(nodes, self, caps[i][2])>>]

\* GrammarParser.__init__ on node n: the fields of the object
NewParser(nodes, n) ==
    LET g == nodes[n]
        isMatch == g.match # <<>>
        isBlock == ~isMatch /\ g.begin # <<>> /\ g.end # <<>>
    IN  [token |-> g.name, contentToken |-> g.contentName, comment |-> g.comment,
         match |-> g.match,
         begin |-> IF isBlock THEN g.begin ELSE <<>>,
         end   |-> IF isBlock THEN g.end ELSE <<>>,
         captures |-> IF isMatch THEN init_captures(nodes, n, g.captures) ELSE <<>>,
         beginCaptures |-> IF isBlock THEN init_captures(nodes, n, g.beginCaptures)
                           ELSE <<>>,
         endCaptures |-> IF isBlock THEN init_captures(nodes, n, g.endCaptures)
                         ELSE <<>>,
         patterns |-> [i \in 1..Len(g.patterns) |->
                          set_parser(nodes, n, g.patterns[i])]]

\* the objects the constructor calls of a grammar create (every node that is
\* not an include), by node index
Construct(gr) ==
    [n \in {k \in 1..Len(gr.nodes) : gr.nodes[k].include = <<>>} |->
        NewParser(gr.nodes, n)]

\* PARSERSTORE after the constructor calls: `if key: self.PARSERSTORE[key] = self`
StoreOf(gr) ==
    [k \in {gr.entries[i][1] : i \in {j \in 1..Len(gr.entries) :
                                       gr.entries[j][1] # <<>>}} |->
        (CHOOSE e \in {gr.entries[i] : i \in 1..Len(gr.entries)} : e[1] = k)[2]]

Lit(s) == Regex(<<>>, s, <<>>, FALSE)
reA     == Lit(<<"a">>)
reB     == Lit(<<"b">>)
reAB    == Lit(<<"a", "b">>)
reBB    == Lit(<<"b", "b">>)
reNL    == Lit(<<NL>>)
reEmpty == Lit(<<>>)
\* (?<=a)b
reLbB   == Regex(<<"a">>, <<"b">>, <<>>, FALSE)
\* (?<=a)   (zero width)
reLbE   == Regex(<<"a">>, <<>>, <<>>, FALSE)
\* a(b)
reGrp   == Regex(<<>>, <<"a", "b">>, <<1, 2>>, FALSE)
\* (?<n>a)b
reNamed == Regex(<<>>, <<"a", "b">>, <<0, 1>>, TRUE)

Root == <<"r">>

Catalogue == <<
    \* 1: three match rules competing for a prefix
    [nodes |-> <<PatsN("root", <<2, 3, 4>>), MatchN("A", reA, <<>>),
                 MatchN("AB", reAB, <<>>), MatchN("B", reB, <<>>)>>,
     entries |-> <<<<Root, 1>>>>, root |-> 1],
    \* 2: a patterns-only rule beside a match rule
    [nodes |-> <<PatsN("root", <<2, 4>>), PatsN("", <<3>>),
                 MatchN("BB", reBB, <<>>), MatchN("B", reB, <<>>)>>,
     entries |-> <<<<Root, 1>>>>, root |-> 1],
    \* 3: a match rule, a patterns-only rule, a match rule
    [nodes |-> <<PatsN("root", <<2, 3, 5>>), MatchN("B", reB, <<>>),
                 PatsN("", <<4>>), MatchN("BB", reBB, <<>>),
                 MatchN("A", reA, <<>>)>>,
     entries |-> <<<<Root, 1>>>>, root |-> 1],
    \* 4: a rule whose regex matches the empty string
    [nodes |-> <<PatsN("root", <<2, 3>>), MatchN("Z", reEmpty, <<>>),
                 MatchN("B", reB, <<>>)>>,
     entries |-> <<<<Root, 1>>>>, root |-> 1],
    \* 5: a block without contentName, with inner patterns
    [nodes |-> <<PatsN("root", <<2, 4>>),
                 BlockN("K", "", reA, reB, <<>>, <<>>, <<3>>),
                 MatchN("N", reNL, <<>>), MatchN("A", reA, <<>>)>>,
     entries |-> <<<<Root, 1>>>>, root |-> 1],
    \* 6: a block with contentName
    [nodes |-> <<PatsN("root", <<2, 3>>),
                 BlockN("K", "k.content", reA, reB, <<>>, <<>>, <<>>),
                 MatchN("B", reB, <<>>)>>,
     entries |-> <<<<Root, 1>>>>, root |-> 1],
    \* 7: captures parsed by a patterns-only rule
    [nodes |-> <<PatsN("root", <<2, 5>>), MatchN("M", reGrp, <<<<1, 3>>>>),
                 PatsN("", <<4>>), MatchN("A", reA, <<>>),
                 MatchN("B", reB, <<>>)>>,
     entries |-> <<<<Root, 1>>>>, root |-> 1],
    \* 8: captures parsed by a match rule; a rule with a parser for group 0
    [nodes |-> <<PatsN("root", <<2, 4>>), MatchN("M", reGrp, <<<<1, 3>>>>),
                 MatchN("g", reB, <<>>), MatchN("W", reB, <<<<0, 5>>>>),
                 LeafN("whole")>>,
     entries |-> <<<<Root, 1>>>>, root |-> 1],
    \* 9: a lookbehind
    [nodes |-> <<PatsN("root", <<2, 3>>), MatchN("LB", reLbB, <<>>),
                 MatchN("A", reA, <<>>)>>,
     entries |-> <<<<Root, 1>>>>, root |-> 1],
    \* 10: a named group
    [nodes |-> <<PatsN("root", <<2, 3>>), MatchN("NG", reNamed, <<>>),
                 MatchN("N", reNL, <<>>)>>,
     entries |-> <<<<Root, 1>>>>, root |-> 1],
    \* 11: an include of a repository entry that exists
    [nodes |-> <<PatsN("root", <<2, 3>>), IncN(<<"#", "n">>),
                 MatchN("A", reA, <<>>), MatchN("B", reB, <<>>)>>,
     entries |-> <<<<<<"n">>, 4>>, <<Root, 1>>>>, root |-> 1],
    \* 12: an include of a repository entry that does not exist
    [nodes |-> <<PatsN("root", <<2, 3>>), MatchN("A", reA, <<>>),
                 IncN(<<"#", "x">>)>>,
     entries |-> <<<<Root, 1>>>>, root |-> 1],
    \* 13: a block that includes itself; an unresolved include inside a block
    [nodes |-> <<PatsN("root", <<2, 4>>),
                 BlockN("K", "", reA, reB, <<>>, <<>>, <<3>>),
                 IncN(Self),
                 BlockN("Q", "", reB, reA, <<>>, <<>>, <<5>>),
                 IncN(<<"#", "x">>)>>,
     entries |-> <<<<Root, 1>>>>, root |-> 1],
    \* 14: a patterns-only rule that includes itself
    [nodes |-> <<PatsN("root", <<2, 3>>), MatchN("A", reA, <<>>), IncN(Self)>>,
     entries |-> <<<<Root, 1>>>>, root |-> 1],
    \* 15: a rule with none of match, begin/end, patterns; end captures
    [nodes |-> <<PatsN("root", <<2, 3>>),
                 BlockN("K", "", reA, reGrp, <<<<0, 4>>>>, <<<<1, 5>>>>, <<>>),
                 LeafN("L"), LeafN("kb"), PatsN("", <<6>>),
                 MatchN("A", reA, <<>>)>>,
     entries |-> <<<<Root, 1>>>>, root |-> 1],
    \* 16: a zero-width lookbehind beside a match rule
    [nodes |-> <<PatsN("root", <<2, 3>>), MatchN("LE", reLbE, <<>>),
                 MatchN("A", reA, <<>>)>>,
     entries |-> <<<<Root, 1>>>>, root |-> 1]
>>

(***************************************************************************)
(* The state machine.                                                      *)
(***************************************************************************)
Buffers == SeqsUpTo(MaxLen) \ {<<>>}

\* the objects and the buffer the running call works on
Cx == [arena |-> arena, store |-> store, s |-> stream]

InitCommon(m) ==
    /\ mode = m
    /\ pc = "new"
    /\ tell = 0
    /\ arena = <<>>
    /\ store = <<>>
    /\ error = "none"
    /\ call = <<>>
    /\ loc = <<>>
    /\ out = <<>>
    /\ files = <<>>
    /\ cache = <<>>
    /\ log = <<>>

InitGrammar(m) ==
    /\ InitCommon(m)
    /\ stream \in Buffers
    /\ gid \in 1..Len(Catalogue)

\* GrammarParser(grammar, key=...): the constructor calls of the grammar
ConstructGrammar ==
    /\ pc = "new"
    /\ mode \in {"dispatch", "parse"}
    /\ arena' = Construct(Catalogue[gid])
    /\ store' = StoreOf(Catalogue[gid])
    /\ pc' = "constructed"
    /\ UNCHANGED <<mode, stream, tell, gid, error, call, loc, out, files, cache, log>>

\* match_patterns, lines 213-218: the call up to the while loop
CallMatchPatterns ==
    /\ pc = "constructed"
    /\ mode = "dispatch"
    /\ \E r \in {k \in DOMAIN arena : arena[k].patterns # <<>>},
          startPos \in 0..Len(stream) :
       \E closePos \in startPos..Len(stream) :
          /\ call' = [rule |-> r, startPos |-> startPos, closePos |-> closePos]
          /\ IF ~Resolvable(store, arena[r].patterns)
             THEN /\ error' = "IncludedParserNotFound"
                  /\ pc' = "raised"
                  /\ UNCHANGED <<tell, loc, out>>
             ELSE /\ loc' = [parsers |-> Resolve(store, arena[r].patterns),
                             patternStartPos |-> startPos,
                             parserLastPos |->
                                 EmptyMemo(Resolve(store, arena[r].patterns)),
                             parserLastElements |->
                                 EmptyMemo(Resolve(store, arena[r].patterns)),
                             n |-> 0, prev |-> startPos, appended |-> FALSE,
                             winner |-> 0, patternPos |-> <<>>, cands |-> <<>>]
                  /\ out' = MR(<<>>, <<>>, startPos, "none")
                  /\ tell' = startPos
                  /\ pc' = "loop"
                  /\ error' = "none"
    /\ UNCHANGED <<mode, stream, gid, arena, store, files, cache, log>>

\* match_patterns, lines 220-251: one iteration of the while loop
MatchPatternsIter ==
    /\ pc = "loop"
    /\ loc.patternStartPos < call.closePos
    /\ loc.n < MaxIter
    /\ LET st == DispatchIter(Cx, loc.parsers, loc.patternStartPos, call.closePos,
                              loc.parserLastPos, loc.parserLastElements, tell,
                              MaxDepth)
       IN  /\ tell' = st.tell
           /\ error' = st.err
           /\ IF st.err # "none"
              THEN /\ pc' = "raised"
                   /\ UNCHANGED <<loc, out>>
              ELSE /\ loc' = [loc EXCEPT
                         !.patternStartPos = IF st.elems # <<>> THEN st.pos[2] ELSE @,
                         !.parserLastPos = st.lastPos,
                         !.parserLastElements = st.lastElems,
                         !.n = @ + 1,
                         !.prev = loc.patternStartPos,
                         !.appended = st.elems # <<>>,
                         !.winner = st.winner,
                         !.patternPos = st.pos,
                         !.cands = st.cands]
                   /\ out' = IF st.elems # <<>>
                             THEN MR(out.captured \o st.elems,
                                     Append(out.spans, st.pos), st.tell, "none")
                             ELSE MR(out.captured, out.spans, st.tell, "none")
                   /\ pc' = IF st.elems # <<>> THEN "loop" ELSE "done"
    /\ UNCHANGED <<mode, stream, gid, arena, store, call, files, cache, log>>

\* match_patterns, lines 220 and 253: the loop condition fails, return captured
MatchPatternsReturn ==
    /\ pc = "loop"
    /\ ~(loc.patternStartPos < call.closePos)
    /\ pc' = "done"
    /\ UNCHANGED <<mode, stream, tell, gid, arena, store, error, call, loc, out,
                   files, cache, log>>

InitDispatch == InitGrammar("dispatch")

NextDispatch ==
    \/ ConstructGrammar
    \/ CallMatchPatterns
    \/ MatchPatternsIter
    \/ MatchPatternsReturn

Spec == InitDispatch /\ [][NextDispatch]_vars

\* parser.parse(stream, startPos, closePos) on one parser object
CallParse ==
    /\ pc = "constructed"
    /\ mode = "parse"
    /\ \E r \in DOMAIN arena, startPos \in 0..Len(stream) :
       \E closePos \in (startPos..Len(stream)) \cup {NoPos} :
          LET res == Parse(Cx, r, startPos, closePos, MaxDepth)
          IN  /\ call' = [rule |-> r, startPos |-> startPos, closePos |-> closePos]
              /\ out' = res
              /\ tell' = res.tell
              /\ error' = res.err
              /\ pc' = IF res.err # "none" THEN "raised" ELSE "returned"
    /\ UNCHANGED <<mode, stream, gid, arena, store, loc, files, cache, log>>

InitParse == InitGrammar("parse")

NextParse ==
    \/ ConstructGrammar
    \/ CallParse

SpecParse == InitParse /\ [][NextParse]_vars

(***************************************************************************)
(* search, pass by pass                                                    *)
(***************************************************************************)
RECURSIVE Pad(_)
Pad(k) == IF k = 0 THEN <<>> ELSE <<SP>> \o Pad(k - 1)

SearchBuffers == {Pad(k) \o b : k \in {0, 7, MaxPad}, b \in Buffers}

SearchRegexes == {reA, reB, reAB, reNL, reEmpty, reLbB, reLbE, reGrp, reNamed}

\* search is entered (lines 272-274) with the stream at initPos
InitSearch ==
    /\ gid = 0
    /\ stream \in SearchBuffers
    /\ \E re \in SearchRegexes, readSize \in {-1, 0, 1, 2},
          onlyLeadingWhiteSpace \in BOOLEAN,
          initPos \in {p \in 0..Len(stream) : p >= Len(stream) - MaxLen} :
          /\ call = [regex |-> re, initPos |-> initPos, readSize |-> readSize,
                     onlyLeadingWhiteSpace |-> onlyLeadingWhiteSpace]
          /\ loc = [lookbehind |-> 0, streamCanLookbehind |-> TRUE, passes |-> 0,
                    shift |-> 0, readFrom |-> initPos, found |-> FALSE,
                    matching |-> NoMatch, matchingToStreamPos |-> 0]
          /\ tell = initPos
    /\ pc = "while"
    /\ arena = <<>> /\ store = <<>> /\ error = "none" /\ out = <<>>
    /\ files = <<>> /\ cache = <<>> /\ log = <<>>
    /\ mode = "search"

\* lines 276-309: one pass through the loop body
SearchPass ==
    /\ pc = "while"
    /\ SearchLoopCond(loc.lookbehind, loc.streamCanLookbehind)
    /\ LET a == SearchAttempt(call.regex, stream, call.initPos, loc.lookbehind,
                              loc.streamCanLookbehind, call.readSize,
                              call.onlyLeadingWhiteSpace)
       IN  /\ loc' = [lookbehind |-> a.lookbehind, streamCanLookbehind |-> a.can,
                      passes |-> loc.passes + 1, shift |-> a.shift,
                      readFrom |-> a.readFrom, found |-> a.found,
                      matching |-> a.matching,
                      matchingToStreamPos |-> a.matchingToStreamPos]
           /\ pc' = IF a.found THEN "found" ELSE "while"
    /\ UNCHANGED <<mode, stream, tell, gid, arena, store, error, call, out,
                   files, cache, log>>

\* lines 310-312: the loop ends without a match
SearchMiss ==
    /\ pc = "while"
    /\ ~SearchLoopCond(loc.lookbehind, loc.streamCanLookbehind)
    /\ out' = SearchMissed(call.initPos)
    /\ tell' = call.initPos
    /\ pc' = "returned"
    /\ UNCHANGED <<mode, stream, gid, arena, store, error, call, loc, files,
                   cache, log>>

\* lines 314-344, with the default parsers=[]
SearchHit ==
    /\ pc = "found"
    /\ LET r == SearchFinish(Cx, [matching |-> loc.matching,
                                  matchingToStreamPos |-> loc.matchingToStreamPos],
                             call.initPos, <<>>, MaxDepth)
       IN  /\ out' = r
           /\ tell' = r.tell
    /\ pc' = "returned"
    /\ UNCHANGED <<mode, stream, gid, arena, store, error, call, loc, files,
                   cache, log>>

NextSearch ==
    \/ SearchPass
    \/ SearchMiss
    \/ SearchHit

SpecSearch == InitSearch /\ [][NextSearch]_vars

(***************************************************************************)
(* LanguageParser.parse_file                                               *)
(***************************************************************************)
\* the index of the last "." of name, 0 when it has none  (str.rfind + 1)
LastDot(name) ==
    LET dots == {i \in 1..Len(name) : name[i] = "."}
    IN  IF dots = {} THEN 0 ELSE CHOOSE i \in dots : \A j \in dots : j <= i

\* filePath.suffix (pathlib): the last dot and what follows it, unless that
\* dot is the first or the last character of the name
Suffix(name) ==
    IF 1 < LastDot(name) /\ LastDot(name) < Len(name)
    THEN SubSeq(name, LastDot(name), Len(name))
    ELSE <<>>

\* filePath.suffix.split(".")[-1]
FileExt(name) == SubSeq(Suffix(name), LastDot(Suffix(name)) + 1, Len(Suffix(name)))

\* ext in self.file_types
InFileTypes(ext, file_types) == \E i \in 1..Len(file_types) : file_types[i] = ext

\* TextmateCache.cache_valid: an entry saved for the file as it is now
cache_valid(ch, fs, filePath) ==
    ch[filePath] # <<>> /\ ch[filePath][1].mtime = fs[filePath].mtime

\* TextmateCache.load
load(ch, filePath) == ch[filePath][1].element

\* TextmateCache.save
save(ch, fs, filePath, element) ==
    [ch EXCEPT ![filePath] = <<[mtime |-> fs[filePath].mtime, element |-> element]>>]

\* ContentHandler.from_path(filePath).source
from_path(fs, filePath) == fs[filePath].text

\* what parse_file does: the exception, the value returned (<<>> for None),
\* the calls made to the cache, the handler and the parser, and the cache
FileResult(err, result, calls, ch) ==
    [error |-> err, result |-> result, log |-> calls, cache |-> ch]

\* parse_file with the cache consulted before the extension is checked
parse_file_cache_first(file_types, fs, ch, filePath, parsed) ==
    IF cache_valid(ch, fs, filePath)
    THEN FileResult("none", <<load(ch, filePath)>>, <<"cache_valid", "load">>, ch)
    ELSE IF ~InFileTypes(FileExt(filePath), file_types)
    THEN FileResult("IncompatibleFileType", <<>>, <<"cache_valid">>, ch)
    ELSE IF from_path(fs, filePath) = <<>>
    THEN FileResult("none", <<>>, <<"cache_valid", "from_path">>, ch)
    ELSE IF parsed = <<>>
    THEN FileResult("none", <<>>, <<"cache_valid", "from_path", "_parse_language">>, ch)
    ELSE FileResult("none", parsed,
                    <<"cache_valid", "from_path", "_parse_language", "_dispatch",
                      "save">>,
                    save(ch, fs, filePath, parsed[1]))

\* LanguageParser.parse_file(filePath); parsed is what _parse_language returns
\* for the handler's text (<<>> for None)
parse_file(file_types, fs, ch, filePath, parsed) ==
    IF ~InFileTypes(FileExt(filePath), file_types)
    THEN FileResult("IncompatibleFileType", <<>>, <<>>, ch)
    ELSE IF cache_valid(ch, fs, filePath)
    THEN FileResult("none", <<load(ch, filePath)>>, <<"cache_valid", "load">>, ch)
    ELSE IF from_path(fs, filePath) = <<>>
    THEN FileResult("none", <<>>, <<"cache_valid", "from_path">>, ch)
    ELSE IF parsed = <<>>
    THEN FileResult("none", <<>>, <<"cache_valid", "from_path", "_parse_language">>, ch)
    ELSE FileResult("none", parsed,
                    <<"cache_valid", "from_path", "_parse_language", "_dispatch",
                      "save">>,
                    save(ch, fs, filePath, parsed[1]))

\* the grammars' fileTypes
Languages == <<
    [fileTypes |-> <<<<"m">>>>],
    [fileTypes |-> <<<<"m">>, <<"p">>>>],
    [fileTypes |-> <<>>]
>>

\* file names: f.m  f.p  f  .m  f.m.p
Paths == {<<"f", ".", "m">>, <<"f", ".", "p">>, <<"f">>, <<".", "m">>,
          <<"f", ".", "m", ".", "p">>}

Texts == {<<>>, <<"a">>}

\* the element a parse of `text` yields
SourceElement(text) == ParsedElement("source", text, <<>>)

InitFile ==
    /\ mode = "file"
    /\ pc = "ready"
    /\ gid \in 1..Len(Languages)
    /\ files = [p \in Paths |-> [text |-> <<"a">>, mtime |-> 0]]
    /\ cache \in [Paths -> {<<>>, <<[mtime |-> 0, element |-> SourceElement(<<"a">>)]>>}]
    /\ stream = <<>> /\ tell = 0 /\ arena = <<>> /\ store = <<>>
    /\ error = "none" /\ call = <<>> /\ out = <<>> /\ log = <<>>
    /\ loc = [calls |-> 0]

\* language.parse_file(filePath)
ParseFile ==
    /\ mode = "file"
    /\ loc.calls < MaxCalls
    /\ \E filePath \in Paths :
       \E parsed \in {<<>>, <<SourceElement(from_path(files, filePath))>>} :
          /\ call' = [path |-> filePath]
          /\ error' = parse_file(Languages[gid].fileTypes, files, cache, filePath,
                                 parsed).error
          /\ out' = parse_file(Languages[gid].fileTypes, files, cache, filePath,
                               parsed).result
          /\ log' = parse_file(Languages[gid].fileTypes, files, cache, filePath,
                               parsed).log
          /\ cache' = parse_file(Languages[gid].fileTypes, files, cache, filePath,
                                 parsed).cache
          /\ pc' = IF error' # "none" THEN "raised" ELSE "returned"
    /\ loc' = [calls |-> loc.calls + 1]
    /\ UNCHANGED <<mode, stream, tell, gid, arena, store, files>>

\* the file is rewritten on disk between two calls
WriteFile ==
    /\ mode = "file"
    /\ loc.calls < MaxCalls
    /\ \E filePath \in Paths, text \in Texts :
          files' = [files EXCEPT ![filePath] = [text |-> text, mtime |-> @.mtime + 1]]
    /\ loc' = [calls |-> loc.calls + 1]
    /\ UNCHANGED <<mode, pc, stream, tell, gid, arena, store, error, call, out,
                   cache, log>>

NextFile ==
    \/ ParseFile
    \/ WriteFile

SpecFile == InitFile /\ [][NextFile]_vars

(***************************************************************************)
(* Properties.                                                             *)
(***************************************************************************)
\* candidate c is preferred to candidate e: smaller matchStart, then larger
\* matchEnd, then earlier in the patterns list
Preferred(c, e) ==
    \/ c.pos[1] < e.pos[1]
    \/ c.pos[1] = e.pos[1] /\ c.pos[2] > e.pos[2]
    \/ c.pos[1] = e.pos[1] /\ c.pos[2] = e.pos[2] /\ c.idx < e.idx

\* the candidates of the last iteration that offered elements
Offering == {i \in 1..Len(loc.cands) : loc.cands[i].elements # <<>>}

\* C1: in every iteration of match_patterns that appends elements, the rule
\* whose elements are appended is, among the rules that parsed successfully
\* at the cursor and produced elements, the one with the smallest matchStart,
\* then the largest matchEnd, then the earliest place in the patterns list.
WinnerIsPreferred ==
    (mode = "dispatch" /\ pc = "loop" /\ loc.appended) =>
        \A i \in Offering : \A j \in Offering :
            loc.cands[i].idx = loc.winner /\ j # i
                => Preferred(loc.cands[i], loc.cands[j])

\* C2: match_patterns makes at most window-length cursor advances: the number
\* of winners appended never exceeds closePos - startPos, also when a rule
\* matches the empty string at the cursor or the rule graph is cyclic.
AdvancesBoundedByWindow ==
    (mode = "dispatch" /\ pc \in {"loop", "done"}) =>
        Len(out.spans) <= call.closePos - call.startPos

RECURSIVE Contents(_)
\* the contents of a list of elements, concatenated in order
Contents(elements) ==
    IF elements = <<>> THEN <<>>
    ELSE elements[1].content \o Contents(Tail(elements))

\* C3: when match_patterns returns, the contents of the elements it captured,
\* concatenated in source order, equal the text of the window
\* [startPos, closePos): no text between or after the winners is dropped.
ContentsCoverWindow ==
    (mode = "dispatch" /\ pc = "done") =>
        Contents(out.captured) = ReadN(stream, call.startPos,
                                       call.closePos - call.startPos)

\* C4: a successful parse of a Match rule returns exactly one element with the
\* rule's name as token and the text the regex matched as content, and the
\* returned end position and the stream position after the call are the end
\* of the match (its start plus the length of the matched text).
MatchRuleAdvancesToMatchEnd ==
    (mode = "parse" /\ pc = "returned" /\ Shape(arena[call.rule]) = "match"
        /\ out.ok) =>
        /\ Len(out.elements) = 1
        /\ out.elements[1].token = arena[call.rule].token
        /\ out.elements[1].content = arena[call.rule].match[1].lit
        /\ out.pos[2] = out.pos[1] + Len(arena[call.rule].match[1].lit)
        /\ tell = out.pos[2]

\* the begin search of the Block rule the running parse call was made on
BeginOf ==
    Search(Cx, arena[call.rule].begin[1], call.startPos,
           arena[call.rule].beginCaptures,
           WindowReadSize(call.startPos, call.closePos), TRUE, MaxDepth - 1)

\* the end search of that rule, from where the begin search left the stream
EndOf ==
    Search(Cx, arena[call.rule].end[1], BeginOf.tell, arena[call.rule].endCaptures,
           IF call.closePos # NoPos THEN call.closePos - BeginOf.tell + 1 ELSE -1,
           FALSE, MaxDepth - 1)

\* the running parse call is on a Block rule whose begin regex was found
BlockBegun ==
    /\ mode = "parse" /\ pc \in {"returned", "raised"}
    /\ Shape(arena[call.rule]) = "block"
    /\ BeginOf.err = "none" /\ BeginOf.hit

\* C5: when the begin regex of a Block rule matches and its end regex is not
\* found, parse reports failure with no elements, raises nothing, and leaves
\* the stream at the startPos the rule was tried at.
EndMissLeavesCursor ==
    (BlockBegun /\ EndOf.err = "none" /\ ~EndOf.hit) =>
        /\ error = "none"
        /\ ~out.ok
        /\ out.elements = <<>>
        /\ tell = call.startPos

\* C6: every pass of search's retry loop reads with a backward shift of at
\* most regex_lookbehind_max characters from a position that is not negative,
\* and a pattern without a lookbehind construct is tried in one pass with
\* shift 0.
ShiftBoundedOnePassWithoutLookbehind ==
    (mode = "search" /\ loc.passes >= 1) =>
        /\ loc.shift <= regex_lookbehind_max
        /\ loc.readFrom >= 0
        /\ call.regex.lb = <<>> => (loc.passes = 1 /\ loc.shift = 0)

\* C7: an include of a name the repository does not define fails the
\* construction of the grammar: once the grammar is constructed every
\* reference of every rule resolves, and no parse or dispatch call raises
\* IncludedParserNotFound.
UnresolvedIncludeFailsConstruction ==
    (mode = "dispatch" /\ pc # "new") =>
        /\ \A r \in DOMAIN arena : Resolvable(store, arena[r].patterns)
        /\ error # "IncludedParserNotFound"

\* C8: parse_file on a path whose extension is not in the language's
\* fileTypes raises IncompatibleFileType, returns nothing and makes no call
\* to the cache, the handler or the parser, whatever the cache holds.
WrongExtensionFailsFirst ==
    (mode = "file" /\ pc \in {"returned", "raised"}
        /\ ~InFileTypes(FileExt(call.path), Languages[gid].fileTypes)) =>
        /\ error = "IncompatibleFileType"
        /\ out = <<>>
        /\ log = <<>>

\* parse_file raised IncompatibleFileType on a path the cache holds a valid
\* entry for
WrongExtensionCachedPath ==
    /\ mode = "file" /\ pc = "raised" /\ error = "IncompatibleFileType"
    /\ ~InFileTypes(FileExt(call.path), Languages[gid].fileTypes)
    /\ cache_valid(cache, files, call.path)

\* C9: a successful parse of a Block rule returns as end position, and leaves
\* the stream at, the end of the end-regex match (blockEnd), with and without
\* contentName.
BlockAdvancesToBlockEnd ==
    (BlockBegun /\ pc = "returned" /\ out.ok /\ out.elements[1].kind = "Block") =>
        /\ out.pos[2] = EndOf.start + Len(EndOf.string)
        /\ tell = EndOf.start + Len(EndOf.string)

\* C10: the spans of the winners appended by match_patterns lie inside the
\* window [startPos, closePos), start at or after the cursor they were found
\* at, do not overlap and are in strictly increasing order.
SpansInsideWindowInOrder ==
    (mode = "dispatch" /\ pc \in {"loop", "done"}) =>
        /\ \A i \in 1..Len(out.spans) :
              /\ call.startPos <= out.spans[i][1]
              /\ out.spans[i][1] <= out.spans[i][2]
              /\ out.spans[i][2] <= call.closePos
        /\ \A i \in 1..(Len(out.spans) - 1) :
              /\ out.spans[i][2] <= out.spans[i + 1][1]
              /\ out.spans[i][1] < out.spans[i + 1][1]
        /\ loc.appended => loc.prev <= loc.patternPos[1]

\* what the candidates of an iteration offered, without the mark of reuse
Offers(cands) ==
    [i \in 1..Len(cands) |->
        [idx |-> cands[i].idx, pos |-> cands[i].pos, elements |-> cands[i].elements]]

\* the last iteration of the running match_patterns call, made again at the
\* same cursor with an empty memo: every parser is parsed
Reparsed ==
    DispatchIter(Cx, loc.parsers, loc.prev, call.closePos, EmptyMemo(loc.parsers),
                 EmptyMemo(loc.parsers), loc.prev, MaxDepth)

\* C11: whenever an iteration of match_patterns reuses a parser's memo, the
\* reused span and elements are what that parser's parse returns at the
\* current cursor with the same closePos, and the iteration offers and chooses
\* what an iteration that parses every alternative again offers and chooses.
MemoIsSound ==
    (mode = "dispatch" /\ pc \in {"loop", "done"} /\ loc.n >= 1) =>
        /\ \A i \in 1..Len(loc.cands) :
              loc.cands[i].cached =>
                  /\ Parse(Cx, loc.cands[i].rule, loc.prev, call.closePos,
                           MaxDepth).ok
                  /\ Parse(Cx, loc.cands[i].rule, loc.prev, call.closePos,
                           MaxDepth).pos = loc.cands[i].pos
                  /\ Parse(Cx, loc.cands[i].rule, loc.prev, call.closePos,
                           MaxDepth).elements = loc.cands[i].elements
        /\ Reparsed.err = "none"
        /\ Offers(Reparsed.cands) = Offers(loc.cands)
        /\ Reparsed.winner = loc.winner

\* C12: on a hit search returns the text the regex matched and the absolute
\* offset at which the match begins in the buffer (the buffer read from that
\* offset holds the matched text; in line mode the offset is the position the
\* line was read from plus the start of the match in the line), for every
\* shift the loop needed; on a miss it returns (None, [], None) and leaves
\* the stream where it was on entry.
SearchReturnsMatchAtOffset ==
    (mode = "search" /\ pc = "returned") =>
        IF out.hit
        THEN /\ out.string = call.regex.lit
             /\ ReadN(stream, out.start, Len(call.regex.lit)) = call.regex.lit
             /\ call.readSize = 0 => out.start = loc.readFrom + loc.matching.start
        ELSE /\ out.string = <<>>
             /\ out.elements = <<>>
             /\ tell = call.initPos

====
